---- MODULE Spec2Model ----
(***************************************************************************)
(* gorest-openapi: the DTO scanner, the resource loader, the schema        *)
(* property builder, the spec assembler and the /openapi.json handler.     *)
(*                                                                         *)
(* Go strings are TLA+ strings (Len, SubSeq and \o work on them).  A TLA+  *)
(* string literal cannot hold the back quote, so BQ stands for it.          *)
(* A Go function that can panic returns a record with a `panic` flag.      *)
(***************************************************************************)
EXTENDS Integers, Sequences, FiniteSets, TLC

VARIABLES
    dirState,   \* the DTO directory on disk: "missing", "unreadable" or "ok"
    files,      \* directory entries: index into FileNamePool -> index into Sources
    routes,     \* the live route table, app.GetRoutes: a sequence of routes
    cfg,        \* the plugin's configuration: [DTOsDirectory, PluginRegistry]
    op,         \* the call in progress: "idle" or the name of the function called
    arg,        \* the argument of that call
    ret         \* what the call returned

vars == <<dirState, files, routes, cfg, op, arg, ret>>

----------------------------------------------------------------------------
(* Go's strings package, as far as the code uses it *)

BQ == "~"
DQ == "\""

Char(s, i) == SubSeq(s, i, i)

Rest(s) == SubSeq(s, 2, Len(s))

HasPrefix(s, p) == Len(s) >= Len(p) /\ SubSeq(s, 1, Len(p)) = p

HasSuffix(s, p) == Len(s) >= Len(p) /\ SubSeq(s, Len(s) - Len(p) + 1, Len(s)) = p

TrimPrefix(s, p) == IF HasPrefix(s, p) THEN SubSeq(s, Len(p) + 1, Len(s)) ELSE s

TrimSuffix(s, p) == IF HasSuffix(s, p) THEN SubSeq(s, 1, Len(s) - Len(p)) ELSE s

UpperLetters == "ABCDEFGHIJKLMNOPQRSTUVWXYZ"
LowerLetters == "abcdefghijklmnopqrstuvwxyz"

IndexIn(c, s) ==
    IF \E i \in 1..Len(s) : Char(s, i) = c
    THEN CHOOSE i \in 1..Len(s) : Char(s, i) = c
    ELSE 0

ToLowerChar(c) ==
    LET i == IndexIn(c, UpperLetters) IN IF i = 0 THEN c ELSE Char(LowerLetters, i)

ToUpperChar(c) ==
    LET i == IndexIn(c, LowerLetters) IN IF i = 0 THEN c ELSE Char(UpperLetters, i)

RECURSIVE ToLower(_)
ToLower(s) == IF s = "" THEN "" ELSE ToLowerChar(Char(s, 1)) \o ToLower(Rest(s))

RECURSIVE ToUpper(_)
ToUpper(s) == IF s = "" THEN "" ELSE ToUpperChar(Char(s, 1)) \o ToUpper(Rest(s))

RECURSIVE TrimLeft(_, _)
TrimLeft(s, c) == IF s # "" /\ Char(s, 1) = c THEN TrimLeft(Rest(s), c) ELSE s

RECURSIVE TrimRight(_, _)
TrimRight(s, c) ==
    IF s # "" /\ Char(s, Len(s)) = c THEN TrimRight(SubSeq(s, 1, Len(s) - 1), c) ELSE s

Trim(s, c) == TrimRight(TrimLeft(s, c), c)

IsSpace(c) == c \in {" ", "\t", "\n", "\r"}

RECURSIVE FieldsRec(_, _, _)
FieldsRec(s, cur, acc) ==
    IF s = ""
    THEN (IF cur = "" THEN acc ELSE Append(acc, cur))
    ELSE IF IsSpace(Char(s, 1))
         THEN FieldsRec(Rest(s), "", IF cur = "" THEN acc ELSE Append(acc, cur))
         ELSE FieldsRec(Rest(s), cur \o Char(s, 1), acc)

Fields(s) == FieldsRec(s, "", <<>>)

RECURSIVE SplitRec(_, _, _, _)
SplitRec(s, sep, cur, acc) ==
    IF s = ""
    THEN Append(acc, cur)
    ELSE IF Char(s, 1) = sep
         THEN SplitRec(Rest(s), sep, "", Append(acc, cur))
         ELSE SplitRec(Rest(s), sep, cur \o Char(s, 1), acc)

Split(s, sep) == SplitRec(s, sep, "", <<>>)

RECURSIVE Join(_, _)
Join(parts, sep) ==
    IF parts = <<>> THEN ""
    ELSE IF Len(parts) = 1 THEN parts[1]
    ELSE parts[1] \o sep \o Join(Tail(parts), sep)

RECURSIVE RemoveAll(_, _)
RemoveAll(s, c) ==
    IF s = "" THEN ""
    ELSE IF Char(s, 1) = c THEN RemoveAll(Rest(s), c)
    ELSE Char(s, 1) \o RemoveAll(Rest(s), c)

Contains(s, sub) == \E i \in 1..(Len(s) + 1) : HasPrefix(SubSeq(s, i, Len(s)), sub)

(* Go maps with string keys *)

EmptyMap == [k \in {} |-> k]

MapPut(m, k, v) == [x \in (DOMAIN m) \cup {k} |-> IF x = k THEN v ELSE m[x]]

SeqRange(q) == {q[i] : i \in 1..Len(q)}

Min(S) == CHOOSE x \in S : \A y \in S : x <= y

----------------------------------------------------------------------------
(* type mapper and pluralizer *)

goTypeToOpenAPIType_anyStars(goType) ==
    LET t == TrimLeft(goType, "*") IN
    CASE t \in {"int", "int32", "int16"} -> [typ |-> "integer", format |-> "int32"]
      [] t = "int64"       -> [typ |-> "integer", format |-> "int64"]
      [] t = "float32"     -> [typ |-> "number", format |-> "float"]
      [] t = "float64"     -> [typ |-> "number", format |-> "double"]
      [] t = "bool"        -> [typ |-> "boolean", format |-> ""]
      [] t = "time.Time"   -> [typ |-> "string", format |-> "date-time"]
      [] t = "interface{}" -> [typ |-> "object", format |-> ""]
      [] OTHER             -> [typ |-> "string", format |-> ""]

goTypeToOpenAPIType(goType) ==
    LET t == TrimPrefix(goType, "*") IN
    CASE t = "int"         -> [typ |-> "integer", format |-> "int32"]
      [] t = "int32"       -> [typ |-> "integer", format |-> "int32"]
      [] t = "int64"       -> [typ |-> "integer", format |-> "int64"]
      [] t = "int16"       -> [typ |-> "integer", format |-> "int32"]
      [] t = "float32"     -> [typ |-> "number", format |-> "float"]
      [] t = "float64"     -> [typ |-> "number", format |-> "double"]
      [] t = "string"      -> [typ |-> "string", format |-> ""]
      [] t = "bool"        -> [typ |-> "boolean", format |-> ""]
      [] t = "time.Time"   -> [typ |-> "string", format |-> "date-time"]
      [] t = "interface{}" -> [typ |-> "object", format |-> ""]
      [] OTHER             -> [typ |-> "string", format |-> ""]

isVowel(c) == c = "a" \/ c = "e" \/ c = "i" \/ c = "o" \/ c = "u"

(* word[len(word)-2] is an index out of range, a run-time panic, when the
   word has fewer than two bytes; && evaluates it only after HasSuffix(word, "y"). *)
pluralize(word) ==
    IF HasSuffix(word, "y") /\ Len(word) < 2
    THEN [panic |-> TRUE, value |-> ""]
    ELSE IF HasSuffix(word, "y") /\ ~isVowel(Char(word, Len(word) - 1))
    THEN [panic |-> FALSE, value |-> SubSeq(word, 1, Len(word) - 1) \o "ies"]
    ELSE IF HasSuffix(word, "fe")
    THEN [panic |-> FALSE, value |-> SubSeq(word, 1, Len(word) - 2) \o "ves"]
    ELSE IF HasSuffix(word, "f")
    THEN [panic |-> FALSE, value |-> SubSeq(word, 1, Len(word) - 1) \o "ves"]
    ELSE IF HasSuffix(word, "z")
    THEN [panic |-> FALSE, value |-> word \o "zes"]
    ELSE IF HasSuffix(word, "s") \/ HasSuffix(word, "x")
            \/ HasSuffix(word, "ch") \/ HasSuffix(word, "sh")
    THEN [panic |-> FALSE, value |-> word \o "es"]
    ELSE [panic |-> FALSE, value |-> word \o "s"]

----------------------------------------------------------------------------
(* tag parser *)

extractTag(tagString, key) ==
    LET tags == Fields(Trim(tagString, BQ))
        hits == {i \in 1..Len(tags) : HasPrefix(tags[i], key \o ":")}
    IN  IF hits = {}
        THEN ""
        ELSE Trim(TrimPrefix(tags[Min(hits)], key \o ":"), DQ)

----------------------------------------------------------------------------
(* go/ast, as far as the scanner looks at it.  A source file is the sequence
   of top-level declarations the parser builds from it, and whether the text
   has a syntax error after them (parser.AllErrors keeps the declarations
   parsed so far in the partial tree it returns with the error). *)

Ident(name) == [k |-> "Ident", Name |-> name]
StarExpr(x) == [k |-> "StarExpr", X |-> x]
SelectorExpr(x, sel) == [k |-> "SelectorExpr", X |-> x, Sel |-> sel]
InterfaceType == [k |-> "InterfaceType"]
MapType == [k |-> "MapType"]
ArrayType(elt) == [k |-> "ArrayType", Elt |-> elt]
StructType(fieldList) == [k |-> "StructType", Fields |-> fieldList]

AstField(names, type, hasTag, tag) ==
    [Names |-> names, Type |-> type, HasTag |-> hasTag, Tag |-> tag]

(* a raw tag literal as written in the source, between back quotes *)
Tagged(t) == BQ \o t \o BQ

TypeSpec(name, type) == [k |-> "TypeSpec", Name |-> name, Type |-> type]
ValueSpec(name) == [k |-> "ValueSpec", Name |-> name]
GenDecl(specs) == [k |-> "GenDecl", Specs |-> specs]
FuncDecl(name) == [k |-> "FuncDecl", Name |-> name]

SourceFile(decls, syntaxError) ==
    [readable |-> TRUE, decls |-> decls, syntaxError |-> syntaxError]

(* a path that cannot be read as a file, such as a directory named x.go *)
UnreadableFile == [readable |-> FALSE, decls |-> <<>>, syntaxError |-> FALSE]

ParseFile(src) ==
    [node |-> [Decls |-> src.decls], err |-> (~src.readable) \/ src.syntaxError]

----------------------------------------------------------------------------
(* DTO source scanner *)

fieldTypeOf(t) ==
    CASE t.k = "Ident" -> [Type |-> t.Name, IsPointer |-> FALSE]
      [] t.k = "StarExpr" ->
            [Type |-> IF t.X.k = "Ident"
                      THEN t.X.Name
                      ELSE IF t.X.k = "SelectorExpr" /\ t.X.X.k = "Ident"
                           THEN t.X.X.Name \o "." \o t.X.Sel
                           ELSE "",
             IsPointer |-> TRUE]
      [] t.k = "SelectorExpr" ->
            [Type |-> IF t.X.k = "Ident" THEN t.X.Name \o "." \o t.Sel ELSE "",
             IsPointer |-> FALSE]
      [] t.k = "InterfaceType" -> [Type |-> "interface{}", IsPointer |-> FALSE]
      [] t.k = "MapType" -> [Type |-> "map[string]interface{}", IsPointer |-> FALSE]
      [] OTHER -> [Type |-> "", IsPointer |-> FALSE]

structFieldOf(field) ==
    LET ft == fieldTypeOf(field.Type) IN
    [Name      |-> field.Names[1],
     Type      |-> ft.Type,
     JSONTag   |-> IF field.HasTag THEN Split(extractTag(field.Tag, "json"), ",")[1] ELSE "",
     DBTag     |-> IF field.HasTag THEN extractTag(field.Tag, "db") ELSE "",
     DTOTag    |-> IF field.HasTag THEN extractTag(field.Tag, "dto") ELSE "",
     IsPointer |-> ft.IsPointer]

RECURSIVE extractFieldsRec(_, _)
extractFieldsRec(list, fields) ==
    IF list = <<>>
    THEN fields
    ELSE IF Len(Head(list).Names) = 0
         THEN extractFieldsRec(Tail(list), fields)
         ELSE extractFieldsRec(Tail(list), Append(fields, structFieldOf(Head(list))))

extractStructFieldsFromAST(st) == extractFieldsRec(st.Fields, <<>>)

hasDTOSuffix_contains(name) == Contains(name, "DTO")

hasDTOSuffix(name) == HasSuffix(name, "DTO")

RECURSIVE dtosOfSpecs(_, _)
dtosOfSpecs(specs, dtos) ==
    IF specs = <<>>
    THEN dtos
    ELSE LET ts == Head(specs) IN
         IF ts.k # "TypeSpec"
         THEN dtosOfSpecs(Tail(specs), dtos)
         ELSE IF ~hasDTOSuffix(ts.Name)
         THEN dtosOfSpecs(Tail(specs), dtos)
         ELSE IF ts.Type.k # "StructType"
         THEN dtosOfSpecs(Tail(specs), dtos)
         ELSE dtosOfSpecs(Tail(specs),
                  MapPut(dtos, ts.Name,
                         [Name   |-> ts.Name,
                          Fields |-> extractStructFieldsFromAST(ts.Type)]))

RECURSIVE dtosOfDecls(_, _)
dtosOfDecls(decls, dtos) ==
    IF decls = <<>>
    THEN dtos
    ELSE IF Head(decls).k = "GenDecl"
         THEN dtosOfDecls(Tail(decls), dtosOfSpecs(Head(decls).Specs, dtos))
         ELSE dtosOfDecls(Tail(decls), dtos)

extractDTOsFromFile_keepPartial(src) ==
    LET p == ParseFile(src) IN
    [dtos |-> dtosOfDecls(p.node.Decls, EmptyMap), isNil |-> FALSE, err |-> p.err]

extractDTOsFromFile(src) ==
    LET p == ParseFile(src) IN
    IF p.err
    THEN [dtos |-> EmptyMap, isNil |-> TRUE, err |-> TRUE]
    ELSE [dtos |-> dtosOfDecls(p.node.Decls, EmptyMap), isNil |-> FALSE, err |-> FALSE]

----------------------------------------------------------------------------
(* schema property builder *)

jsonNameOf(field) == IF field.JSONTag = "" THEN ToLower(field.Name) ELSE field.JSONTag

propertyOf_neverNullable(field) ==
    LET m == goTypeToOpenAPIType(field.Type) IN
    IF m.format # ""
    THEN [type |-> m.typ, format |-> m.format, nullable |-> FALSE]
    ELSE [type |-> m.typ, nullable |-> FALSE]

propertyOf(field) ==
    LET m == goTypeToOpenAPIType(field.Type) IN
    IF m.format # ""
    THEN [type |-> m.typ, format |-> m.format, nullable |-> field.IsPointer]
    ELSE [type |-> m.typ, nullable |-> field.IsPointer]

RECURSIVE buildPropertiesRec(_, _)
buildPropertiesRec(fields, properties) ==
    IF fields = <<>>
    THEN properties
    ELSE buildPropertiesRec(Tail(fields),
             MapPut(properties, jsonNameOf(Head(fields)), propertyOf(Head(fields))))

buildSchemaPropertiesFromDTO(fields) ==
    [isNil |-> FALSE, entries |-> buildPropertiesRec(fields, EmptyMap)]

isSystemField_none(jsonName) == FALSE

isSystemField(jsonName) ==
    jsonName = "id" \/ jsonName = "created_at" \/ jsonName = "updated_at"

RECURSIVE requiredRec(_, _)
requiredRec(fields, required) ==
    IF fields = <<>>
    THEN required
    ELSE LET field == Head(fields) IN
         IF isSystemField(jsonNameOf(field))
         THEN requiredRec(Tail(fields), required)
         ELSE IF ~field.IsPointer
              THEN requiredRec(Tail(fields),
                       [isNil |-> FALSE, items |-> Append(required.items, jsonNameOf(field))])
              ELSE requiredRec(Tail(fields), required)

getRequiredFieldsFromDTO(fields) == requiredRec(fields, [isNil |-> TRUE, items |-> <<>>])

----------------------------------------------------------------------------
(* resource model *)

containsSubstr_prefix(s, substr) == HasPrefix(s, substr)

containsSubstr(s, substr) ==
    \E i \in 0..Len(s) : i + Len(substr) <= Len(s) /\ SubSeq(s, i + 1, i + Len(substr)) = substr

(* getMainDTO ranges over a Go map, whose iteration order is not fixed: any
   DTO that qualifies can be the one returned. *)
mainDTOCandidates(r) ==
    {name \in DOMAIN r.DTOs : ~containsSubstr(name, "Create") /\ ~containsSubstr(name, "Update")}

NilDTO == [isNil |-> TRUE, Name |-> "", Fields |-> <<>>]

getMainDTO(r) ==
    IF mainDTOCandidates(r) = {}
    THEN {NilDTO}
    ELSE {[isNil |-> FALSE, Name |-> r.DTOs[n].Name, Fields |-> r.DTOs[n].Fields] :
            n \in mainDTOCandidates(r)}

----------------------------------------------------------------------------
(* the DTO directory: names in the order os.ReadDir lists them (sorted by
   file name), and the file contents a test or a user may put there *)

FileNamePool ==
    <<".go", "README.md", "User.go", "article.go", "bus.go", "buse.go", "user.go", "y.go">>

(* file names of the general environment, and the resource files of the
   environment of the two resource sources (names that meet in one schema
   name or in one base path) *)
EnvFiles ==
    {i \in 1..Len(FileNamePool) :
        FileNamePool[i] \in {".go", "README.md", "article.go", "user.go", "y.go"}}

ResourceFiles ==
    {i \in 1..Len(FileNamePool) :
        FileNamePool[i] \in {"User.go", "bus.go", "buse.go", "user.go"}}

NameField == AstField(<<"Name">>, Ident("string"), TRUE, Tagged("json:\"name\""))
TitleField == AstField(<<"Title">>, Ident("string"), TRUE, Tagged("json:\"title\""))
IDField == AstField(<<"ID">>, Ident("int64"), TRUE, Tagged("json:\"id\""))
BioField == AstField(<<"Bio">>, StarExpr(Ident("string")), TRUE, Tagged("json:\"bio,omitempty\""))

UserSource ==
    SourceFile(<<GenDecl(<<TypeSpec("UserDTO", StructType(<<IDField, NameField>>))>>)>>, FALSE)

HelperSource ==
    SourceFile(<<GenDecl(<<TypeSpec("Helper", StructType(<<NameField>>))>>),
                 FuncDecl("NewHelper")>>, FALSE)

StatusSource == SourceFile(<<GenDecl(<<TypeSpec("StatusDTO", Ident("string"))>>)>>, FALSE)

BrokenSource ==
    SourceFile(<<GenDecl(<<TypeSpec("UserDTO", StructType(<<IDField, NameField>>))>>)>>, TRUE)

WriteOnlySource ==
    SourceFile(<<GenDecl(<<TypeSpec("CreateUserDTO", StructType(<<NameField>>)),
                           TypeSpec("UpdateUserDTO", StructType(<<BioField>>))>>)>>, FALSE)

TwoMainSource ==
    SourceFile(<<GenDecl(<<TypeSpec("UserDTO", StructType(<<IDField, NameField>>))>>),
                 GenDecl(<<TypeSpec("CreateUserDTO", StructType(<<NameField>>))>>),
                 GenDecl(<<TypeSpec("ProfileDTO", StructType(<<TitleField, BioField>>))>>)>>,
               FALSE)

Sources ==
    <<UserSource, HelperSource, StatusSource, BrokenSource, WriteOnlySource,
      TwoMainSource>>

----------------------------------------------------------------------------
(* resource loader *)

LoadError == [kind |-> "error", resources |-> EmptyMap]
LoadPanic == [kind |-> "panic", resources |-> EmptyMap]

retainResource(dtos) == Cardinality(DOMAIN dtos) > 0

RECURSIVE loadRec_failFast(_, _, _)
loadRec_failFast(fs, todo, resources) ==
    IF todo = {}
    THEN [kind |-> "ok", resources |-> resources]
    ELSE LET i == Min(todo)
             name == FileNamePool[i]
             resourceName == TrimSuffix(name, ".go")
             scan == extractDTOsFromFile(Sources[fs[i]])
             plural == pluralize(resourceName)
         IN  IF ~HasSuffix(name, ".go")
             THEN loadRec_failFast(fs, todo \ {i}, resources)
             ELSE IF scan.err
             THEN LoadError
             ELSE IF ~retainResource(scan.dtos)
             THEN loadRec_failFast(fs, todo \ {i}, resources)
             ELSE IF plural.panic
             THEN LoadPanic
             ELSE loadRec_failFast(fs, todo \ {i},
                      MapPut(resources, resourceName,
                             [Name |-> resourceName, PluralName |-> plural.value,
                              DTOs |-> scan.dtos]))

RECURSIVE loadRec(_, _, _)
loadRec(fs, todo, resources) ==
    IF todo = {}
    THEN [kind |-> "ok", resources |-> resources]
    ELSE LET i == Min(todo)
             name == FileNamePool[i]
             resourceName == TrimSuffix(name, ".go")
             scan == extractDTOsFromFile(Sources[fs[i]])
             plural == pluralize(resourceName)
         IN  IF ~HasSuffix(name, ".go")
             THEN loadRec(fs, todo \ {i}, resources)
             ELSE IF scan.err
             THEN loadRec(fs, todo \ {i}, resources)
             ELSE IF ~retainResource(scan.dtos)
             THEN loadRec(fs, todo \ {i}, resources)
             ELSE IF plural.panic
             THEN LoadPanic
             ELSE loadRec(fs, todo \ {i},
                      MapPut(resources, resourceName,
                             [Name |-> resourceName, PluralName |-> plural.value,
                              DTOs |-> scan.dtos]))

loadResourceDTOs_errOnEmpty(ds, fs) ==
    IF ds # "ok" \/ DOMAIN fs = {} THEN LoadError
    ELSE loadRec(fs, DOMAIN fs, EmptyMap)

(* ds, fs: the state of the directory named dtosDir and its entries *)
loadResourceDTOs(ds, fs) ==
    IF ds = "missing" THEN LoadError
    ELSE IF ds = "unreadable" THEN LoadError
    ELSE loadRec(fs, DOMAIN fs, EmptyMap)

----------------------------------------------------------------------------
(* route discovery *)

Route(path, method) == [Path |-> path, Method |-> method]

RoutePool ==
    { Route("/health", "GET"), Route("/users", "POST"), Route("/users/{id}", "GET") }

shouldSkipRoute_ignoreResources(path, resourcePaths) ==
    path \in {"/openapi", "/openapi.json", "", "/"}

shouldSkipRoute(path, resourcePaths) ==
    IF path = "/openapi" \/ path = "/openapi.json" THEN TRUE
    ELSE IF path \in resourcePaths THEN TRUE
    ELSE IF path = "" \/ path = "/" THEN TRUE
    ELSE FALSE

determineTag_byPrefix(path) ==
    LET parts == Split(Trim(path, "/"), "/") IN
    IF Len(parts) = 0 \/ parts[1] = ""
    THEN "General"
    ELSE LET segment == parts[1] IN
         CASE HasPrefix(segment, "auth") -> "Authentication"
           [] HasPrefix(segment, "health") -> "System"
           [] OTHER -> ToUpper(SubSeq(segment, 1, 1)) \o SubSeq(segment, 2, Len(segment))

determineTag(path) ==
    LET parts == Split(Trim(path, "/"), "/") IN
    IF Len(parts) = 0 \/ parts[1] = ""
    THEN "General"
    ELSE LET segment == parts[1] IN
         CASE segment = "auth" -> "Authentication"
           [] segment = "health" -> "System"
           [] OTHER -> ToUpper(SubSeq(segment, 1, 1)) \o SubSeq(segment, 2, Len(segment))

generateSummary(path, method) ==
    LET parts == Split(Trim(path, "/"), "/")
        action == CASE method = "GET" -> "Get"
                    [] method = "POST" -> "Create or execute"
                    [] method = "PUT" -> "Update"
                    [] method = "PATCH" -> "Partially update"
                    [] method = "DELETE" -> "Delete"
                    [] OTHER -> method
    IN  action \o " " \o RemoveAll(Join(parts, " "), ":")

generateDescription(path, method) == method \o " " \o path

RECURSIVE pathParametersRec(_, _)
pathParametersRec(parts, params) ==
    IF parts = <<>>
    THEN params
    ELSE IF HasPrefix(Head(parts), ":")
         THEN pathParametersRec(Tail(parts),
                  Append(params,
                         [name |-> TrimPrefix(Head(parts), ":"), in |-> "path",
                          required |-> TRUE,
                          description |-> "Path parameter: " \o TrimPrefix(Head(parts), ":"),
                          schema |-> [type |-> "string"]]))
         ELSE pathParametersRec(Tail(parts), params)

extractPathParameters(path) == pathParametersRec(Split(path, "/"), <<>>)

ObjectContent == [content |-> "application/json", schema |-> [type |-> "object"]]

generateRequestBody == [required |-> TRUE, content |-> ObjectContent]

generateResponses_otherAsGet(method) ==
    CASE method = "POST" ->
            MapPut(MapPut(EmptyMap, "201",
                          [description |-> "Successfully created", content |-> ObjectContent]),
                   "400", [description |-> "Bad request"])
      [] method \in {"PUT", "PATCH"} ->
            MapPut(MapPut(EmptyMap, "200",
                          [description |-> "Successfully updated", content |-> ObjectContent]),
                   "404", [description |-> "Not found"])
      [] method = "DELETE" ->
            MapPut(MapPut(EmptyMap, "204", [description |-> "Successfully deleted"]),
                   "404", [description |-> "Not found"])
      [] OTHER -> MapPut(EmptyMap, "200",
                         [description |-> "Successful response", content |-> ObjectContent])

generateResponses(method) ==
    CASE method = "GET" ->
            MapPut(EmptyMap, "200",
                   [description |-> "Successful response", content |-> ObjectContent])
      [] method = "POST" ->
            MapPut(MapPut(EmptyMap, "201",
                          [description |-> "Successfully created", content |-> ObjectContent]),
                   "400", [description |-> "Bad request"])
      [] method \in {"PUT", "PATCH"} ->
            MapPut(MapPut(EmptyMap, "200",
                          [description |-> "Successfully updated", content |-> ObjectContent]),
                   "404", [description |-> "Not found"])
      [] method = "DELETE" ->
            MapPut(MapPut(EmptyMap, "204", [description |-> "Successfully deleted"]),
                   "404", [description |-> "Not found"])
      [] OTHER -> MapPut(EmptyMap, "200", [description |-> "Successful response"])

generateRouteSpec_bodyUnlessGet(path, method) ==
    LET base == [summary     |-> generateSummary(path, method),
                 description |-> generateDescription(path, method),
                 tags        |-> <<determineTag(path)>>]
        withParams == IF Contains(path, ":")
                      THEN MapPut(base, "parameters", extractPathParameters(path))
                      ELSE base
        withBody == IF method # "GET"
                    THEN MapPut(withParams, "requestBody", generateRequestBody)
                    ELSE withParams
    IN  MapPut(withBody, "responses", generateResponses(method))

generateRouteSpec(path, method) ==
    LET base == [summary     |-> generateSummary(path, method),
                 description |-> generateDescription(path, method),
                 tags        |-> <<determineTag(path)>>]
        withParams == IF Contains(path, ":")
                      THEN MapPut(base, "parameters", extractPathParameters(path))
                      ELSE base
        withBody == IF method = "POST" \/ method = "PUT" \/ method = "PATCH"
                    THEN MapPut(withParams, "requestBody", generateRequestBody)
                    ELSE withParams
    IN  MapPut(withBody, "responses", generateResponses(method))

RECURSIVE discoverRec_replace(_, _, _)
discoverRec_replace(rs, resourcePaths, discovered) ==
    IF rs = <<>>
    THEN discovered
    ELSE LET path == Head(rs).Path
             method == ToUpper(Head(rs).Method)
         IN  IF shouldSkipRoute(path, resourcePaths)
             THEN discoverRec_replace(Tail(rs), resourcePaths, discovered)
             ELSE discoverRec_replace(Tail(rs), resourcePaths,
                      MapPut(discovered, path,
                             MapPut(EmptyMap, ToLower(method),
                                    generateRouteSpec(path, method))))

RECURSIVE discoverRec(_, _, _)
discoverRec(rs, resourcePaths, discovered) ==
    IF rs = <<>>
    THEN discovered
    ELSE LET path == Head(rs).Path
             method == ToUpper(Head(rs).Method)
         IN  IF shouldSkipRoute(path, resourcePaths)
             THEN discoverRec(Tail(rs), resourcePaths, discovered)
             ELSE discoverRec(Tail(rs), resourcePaths,
                      MapPut(discovered, path,
                             MapPut(IF path \in DOMAIN discovered
                                    THEN discovered[path] ELSE EmptyMap,
                                    ToLower(method), generateRouteSpec(path, method))))

(* rs: app.GetRoutes(true), the registered routes in table order *)
discoverNonResourceRoutes(rs, resourcePaths) == discoverRec(rs, resourcePaths, EmptyMap)

----------------------------------------------------------------------------
(* spec assembler, DTO mode.  The fixed query parameters of the list
   operation, info and servers do not depend on the resources and are left
   out of the document. *)

SchemaRef(schemaName) == "#/components/schemas/" \o schemaName

(* resource.Name[:1] is a slice out of range, a run-time panic, on an empty name *)
schemaNameOf(name) ==
    IF Len(name) < 1
    THEN [panic |-> TRUE, value |-> ""]
    ELSE [panic |-> FALSE,
          value |-> ToUpper(SubSeq(name, 1, 1)) \o SubSeq(name, 2, Len(name))]

dtoSchemaOf(mainDTO) ==
    LET properties == buildSchemaPropertiesFromDTO(mainDTO.Fields)
        required == getRequiredFieldsFromDTO(mainDTO.Fields)
    IN  IF Len(required.items) > 0
        THEN [type |-> "object", properties |-> properties.entries,
              required |-> required.items]
        ELSE [type |-> "object", properties |-> properties.entries]

IDParameter ==
    [name |-> "id", in |-> "path", required |-> TRUE, description |-> "Resource ID",
     schema |-> [type |-> "string"]]

buildCollectionEndpoints(resource, schemaName) ==
    [get  |-> [summary     |-> "List " \o resource.PluralName,
               description |-> "Retrieve a list of " \o resource.PluralName,
               tags        |-> <<schemaName>>,
               responses   |-> MapPut(EmptyMap, "200",
                                  [description |-> "Hydra paginated collection",
                                   memberRef |-> SchemaRef(schemaName)])],
     post |-> [summary     |-> "Create " \o resource.Name,
               description |-> "Create a new " \o resource.Name,
               tags        |-> <<schemaName>>,
               requestBody |-> [required |-> TRUE, ref |-> SchemaRef(schemaName)],
               responses   |-> MapPut(EmptyMap, "201",
                                  [description |-> "Successfully created",
                                   ref |-> SchemaRef(schemaName)])]]

buildItemEndpoints(resource, schemaName) ==
    [get    |-> [summary     |-> "Get " \o resource.Name \o " by ID",
                 description |-> "Retrieve a single " \o resource.Name \o " by ID",
                 tags        |-> <<schemaName>>,
                 parameters  |-> <<IDParameter>>,
                 responses   |-> MapPut(MapPut(EmptyMap, "200",
                                    [description |-> "Successful response",
                                     ref |-> SchemaRef(schemaName)]),
                                    "404", [description |-> "Resource not found"])],
     put    |-> [summary     |-> "Update " \o resource.Name \o " by ID",
                 description |-> "Update an existing " \o resource.Name,
                 tags        |-> <<schemaName>>,
                 parameters  |-> <<IDParameter>>,
                 requestBody |-> [required |-> TRUE, ref |-> SchemaRef(schemaName)],
                 responses   |-> MapPut(MapPut(EmptyMap, "200",
                                    [description |-> "Successfully updated",
                                     ref |-> SchemaRef(schemaName)]),
                                    "404", [description |-> "Resource not found"])],
     delete |-> [summary     |-> "Delete " \o resource.Name \o " by ID",
                 description |-> "Delete an existing " \o resource.Name,
                 tags        |-> <<schemaName>>,
                 parameters  |-> <<IDParameter>>,
                 responses   |-> MapPut(MapPut(EmptyMap, "204",
                                    [description |-> "Successfully deleted"]),
                                    "404", [description |-> "Resource not found"])]]

MapMerge(a, b) == [x \in (DOMAIN a) \cup (DOMAIN b) |-> IF x \in DOMAIN b THEN b[x] ELSE a[x]]

basePathOf(resource) == "/" \o resource.PluralName

SecuritySchemes ==
    [bearerAuth |-> [type |-> "http", scheme |-> "bearer", bearerFormat |-> "JWT",
                     description |-> "JWT authentication token"]]

(* The two loops range over a Go map.  pick is the main DTO getMainDTO returned
   for each resource; when several resources write the same schema name or
   the same base path, lastSchema and lastPath say which of them the loop
   visited last and so stays in the document. *)
assemble(rs, resources, pick, lastSchema, lastPath) ==
    LET schemas == [sn \in DOMAIN lastSchema |-> dtoSchemaOf(pick[lastSchema[sn]])]
        bases == DOMAIN lastPath
        resourcePaths == bases \cup {b \o "/:id" : b \in bases}
        collections ==
            [b \in bases |->
                buildCollectionEndpoints(resources[lastPath[b]],
                                         schemaNameOf(lastPath[b]).value)]
        items ==
            [k \in {b \o "/{id}" : b \in bases} |->
                LET b == CHOOSE x \in bases : x \o "/{id}" = k IN
                buildItemEndpoints(resources[lastPath[b]], schemaNameOf(lastPath[b]).value)]
        discoveredRoutes == discoverNonResourceRoutes(rs, resourcePaths)
    IN  [openapi    |-> "3.0.0",
         paths      |-> MapMerge(MapMerge(collections, items), discoveredRoutes),
         components |-> [schemas |-> schemas, securitySchemes |-> SecuritySchemes],
         security   |-> <<"bearerAuth">>]

NilDoc == [openapi |-> "", paths |-> EmptyMap,
           components |-> [schemas |-> EmptyMap, securitySchemes |-> EmptyMap],
           security |-> <<>>]

GenError == [kind |-> "error", docNil |-> TRUE, doc |-> NilDoc]
GenPanic == [kind |-> "panic", docNil |-> TRUE, doc |-> NilDoc]

assembleAll(rs, resources) ==
    LET names == DOMAIN resources
        picks == {p \in [names -> UNION {getMainDTO(resources[n]) : n \in names}] :
                    \A n \in names : p[n] \in getMainDTO(resources[n])}
    IN  UNION {
          LET withSchema == {n \in names : ~p[n].isNil}
              schemaNames == {schemaNameOf(n).value : n \in withSchema}
              bases == {basePathOf(resources[n]) : n \in names}
              lastSchemas == {w \in [schemaNames -> withSchema] :
                                \A sn \in schemaNames : schemaNameOf(w[sn]).value = sn}
              lastPaths == {w \in [bases -> names] :
                                \A b \in bases : basePathOf(resources[w[b]]) = b}
          IN  {[kind |-> "ok", docNil |-> FALSE, doc |-> assemble(rs, resources, p, ls, lp)] :
                  ls \in lastSchemas, lp \in lastPaths}
          : p \in picks }

generateOpenAPISpec_staleRoutes(rs, c, ds, fs) ==
    IF c.DTOsDirectory # ""
    THEN LET loaded == loadResourceDTOs(ds, fs) IN
         IF loaded.kind = "error" THEN {GenError}
         ELSE IF loaded.kind = "panic" THEN {GenPanic}
         ELSE IF \E n \in DOMAIN loaded.resources : schemaNameOf(n).panic THEN {GenPanic}
         ELSE assembleAll(<<>>, loaded.resources)
    ELSE assembleAll(<<>>, EmptyMap)

(* plugin-resource mode.  A registry is nil or the list of its plugins; a
   plugin that is an OpenAPIProvider supplies resources.  A model of a
   resource is nil ("nil") or the name of its Go struct type; the schema
   buildSchemaFromModel derives by reflection is represented by the model it
   was derived from. *)
NilRegistry == [isNil |-> TRUE, plugins |-> <<>>]

RECURSIVE resourcesOfPlugins(_, _)
resourcesOfPlugins(plugins, resources) ==
    IF plugins = <<>>
    THEN resources
    ELSE IF ~Head(plugins).isProvider
         THEN resourcesOfPlugins(Tail(plugins), resources)
         ELSE resourcesOfPlugins(Tail(plugins), resources \o Head(plugins).resources)

loadResourcesFromPlugins(registry) ==
    IF registry.isNil THEN <<>> ELSE resourcesOfPlugins(registry.plugins, <<>>)

buildSchemaFromModel(model) == [type |-> "object", model |-> model]

buildCollectionEndpointsFromResource(resource, schemaName) ==
    LET tags == IF Len(resource.Tags) = 0 THEN <<schemaName>> ELSE resource.Tags
        description == IF resource.Description = ""
                       THEN "Retrieve a list of " \o resource.PluralName
                       ELSE resource.Description
        get == [summary     |-> "List " \o resource.PluralName,
                description |-> description,
                tags        |-> tags,
                responses   |-> MapPut(EmptyMap, "200",
                                   [description |-> "Hydra paginated collection",
                                    memberRef |-> SchemaRef(schemaName)])]
        post == [summary     |-> "Create " \o resource.Name,
                 description |-> "Create a new " \o resource.Name,
                 tags        |-> tags,
                 requestBody |-> [required |-> TRUE,
                                  ref |-> SchemaRef("Create" \o schemaName \o "Request")],
                 responses   |-> MapPut(EmptyMap, "201",
                                    [description |-> "Successfully created",
                                     ref |-> SchemaRef(schemaName)])]
    IN  IF resource.CreateModel # "nil"
        THEN MapPut(MapPut(EmptyMap, "get", get), "post", post)
        ELSE MapPut(EmptyMap, "get", get)

buildItemEndpointsFromResource(resource, schemaName) ==
    LET tags == IF Len(resource.Tags) = 0 THEN <<schemaName>> ELSE resource.Tags
        get == [summary     |-> "Get " \o resource.Name \o " by ID",
                description |-> "Retrieve a single " \o resource.Name \o " by ID",
                tags        |-> tags,
                parameters  |-> <<IDParameter>>,
                responses   |-> MapPut(MapPut(EmptyMap, "200",
                                   [description |-> "Successful response",
                                    ref |-> SchemaRef(schemaName)]),
                                   "404", [description |-> "Resource not found"])]
        delete == [summary     |-> "Delete " \o resource.Name \o " by ID",
                   description |-> "Delete an existing " \o resource.Name,
                   tags        |-> tags,
                   parameters  |-> <<IDParameter>>,
                   responses   |-> MapPut(MapPut(EmptyMap, "204",
                                      [description |-> "Successfully deleted"]),
                                      "404", [description |-> "Resource not found"])]
        put == [summary     |-> "Update " \o resource.Name \o " by ID",
                description |-> "Update an existing " \o resource.Name,
                tags        |-> tags,
                parameters  |-> <<IDParameter>>,
                requestBody |-> [required |-> TRUE,
                                 ref |-> SchemaRef("Update" \o schemaName \o "Request")],
                responses   |-> MapPut(MapPut(EmptyMap, "200",
                                   [description |-> "Successfully updated",
                                    ref |-> SchemaRef(schemaName)]),
                                   "404", [description |-> "Resource not found"])]
        base == MapPut(MapPut(EmptyMap, "get", get), "delete", delete)
    IN  IF resource.UpdateModel # "nil" THEN MapPut(base, "put", put) ELSE base

(* the loop over pluginResources: acc holds schemas, paths and resourcePaths *)
RECURSIVE pluginRec(_, _)
pluginRec(resources, acc) ==
    IF resources = <<>>
    THEN acc
    ELSE LET resource == Head(resources)
             schemaName == schemaNameOf(resource.Name).value
             s1 == IF resource.ResponseModel # "nil"
                   THEN MapPut(acc.schemas, schemaName,
                               buildSchemaFromModel(resource.ResponseModel))
                   ELSE acc.schemas
             s2 == IF resource.CreateModel # "nil"
                   THEN MapPut(s1, "Create" \o schemaName \o "Request",
                               buildSchemaFromModel(resource.CreateModel))
                   ELSE s1
             s3 == IF resource.UpdateModel # "nil"
                   THEN MapPut(s2, "Update" \o schemaName \o "Request",
                               buildSchemaFromModel(resource.UpdateModel))
                   ELSE s2
             base == resource.BasePath
         IN  pluginRec(Tail(resources),
                 [schemas |-> s3,
                  paths |-> MapPut(MapPut(acc.paths, base,
                                buildCollectionEndpointsFromResource(resource, schemaName)),
                                base \o "/{id}",
                                buildItemEndpointsFromResource(resource, schemaName)),
                  resourcePaths |-> acc.resourcePaths \cup {base, base \o "/:id"}])

assembleFromPlugins(rs, pluginResources) ==
    LET acc == pluginRec(pluginResources,
                         [schemas |-> EmptyMap, paths |-> EmptyMap, resourcePaths |-> {}])
    IN  [kind |-> "ok", docNil |-> FALSE,
         doc |-> [openapi    |-> "3.0.0",
                  paths      |-> MapMerge(acc.paths,
                                    discoverNonResourceRoutes(rs, acc.resourcePaths)),
                  components |-> [schemas |-> acc.schemas,
                                  securitySchemes |-> SecuritySchemes],
                  security   |-> <<"bearerAuth">>]]

(* the set of results a call can return: rs is the route table of app, c the
   GeneratorConfig, ds and fs the directory c.DTOsDirectory names *)
generateOpenAPISpec_dtoFirst(rs, c, ds, fs) ==
    LET pluginResources == loadResourcesFromPlugins(c.PluginRegistry) IN
    IF c.DTOsDirectory # ""
    THEN LET loaded == loadResourceDTOs(ds, fs) IN
         IF loaded.kind = "error" THEN {GenError}
         ELSE IF loaded.kind = "panic" THEN {GenPanic}
         ELSE IF \E n \in DOMAIN loaded.resources : schemaNameOf(n).panic THEN {GenPanic}
         ELSE assembleAll(rs, loaded.resources)
    ELSE IF Len(pluginResources) > 0
    THEN {assembleFromPlugins(rs, pluginResources)}
    ELSE assembleAll(rs, EmptyMap)

generateOpenAPISpec(rs, c, ds, fs) ==
    LET pluginResources == loadResourcesFromPlugins(c.PluginRegistry) IN
    IF Len(pluginResources) > 0
    THEN IF \E i \in 1..Len(pluginResources) : schemaNameOf(pluginResources[i].Name).panic
         THEN {GenPanic}
         ELSE {assembleFromPlugins(rs, pluginResources)}
    ELSE IF c.DTOsDirectory # ""
    THEN LET loaded == loadResourceDTOs(ds, fs) IN
         IF loaded.kind = "error" THEN {GenError}
         ELSE IF loaded.kind = "panic" THEN {GenPanic}
         ELSE IF \E n \in DOMAIN loaded.resources : schemaNameOf(n).panic THEN {GenPanic}
         ELSE assembleAll(rs, loaded.resources)
    ELSE assembleAll(rs, EmptyMap)

(* the GET /openapi.json handler, given what generateOpenAPISpec returned; a
   panic in the handler aborts the request *)
openapiJSONHandler(result) ==
    IF result.kind = "panic"
    THEN [aborted |-> TRUE, status |-> 0, error |-> "", body |-> NilDoc]
    ELSE IF result.kind = "error"
    THEN [aborted |-> FALSE, status |-> 500,
          error |-> "Failed to generate OpenAPI spec: failed to load DTOs", body |-> NilDoc]
    ELSE [aborted |-> FALSE, status |-> 200, error |-> "", body |-> result.doc]

----------------------------------------------------------------------------
(* the plugin's configuration.  cfg is a map[string]interface{}: a value is
   the dynamic type and the value written as text, an entry the map does not
   have is the nil interface, on which every type assertion fails. *)

CfgValue(t, v) == [t |-> t, v |-> v]

CfgAbsent == CfgValue("absent", "")

ZeroPlugin ==
    [dtosDirectory |-> "", paginationLimit |-> "0", paginationMaxLimit |-> "0",
     pluginRegistry |-> "nil", title |-> "", version |-> "", description |-> ""]

StringOr(value, default) == IF value.t = "string" THEN value.v ELSE default

Initialize(c) ==
    [err |-> FALSE,
     p   |-> [dtosDirectory      |-> StringOr(c.dtos_directory, ZeroPlugin.dtosDirectory),
              paginationLimit    |-> IF c.pagination_limit.t = "int"
                                     THEN c.pagination_limit.v
                                     ELSE ZeroPlugin.paginationLimit,
              paginationMaxLimit |-> IF c.pagination_max_limit.t = "int"
                                     THEN c.pagination_max_limit.v
                                     ELSE ZeroPlugin.paginationMaxLimit,
              pluginRegistry     |-> IF c.plugin_registry.t = "*plugin.PluginRegistry"
                                     THEN c.plugin_registry.v
                                     ELSE ZeroPlugin.pluginRegistry,
              title              |-> StringOr(c.title, "GoREST API"),
              version            |-> StringOr(c.version, "1.0.0"),
              description        |-> StringOr(c.description,
                                         "Auto-generated REST API with full CRUD operations")]]

----------------------------------------------------------------------------
(* bounded inputs of the functions *)

MaxFields == 2
MaxDecls == 2
MaxFieldList == 2

SeqsUpTo(S, n) == UNION {[1..k -> S] : k \in 0..n}

AstFieldPool ==
    { AstField(<<"ID">>, Ident("int64"), TRUE, Tagged("json:\"id\"")),
      AstField(<<"Name">>, Ident("string"), TRUE, Tagged("json:\"name\" db:\"name\"")),
      AstField(<<"Bio">>, StarExpr(Ident("string")), TRUE, Tagged("json:\"bio,omitempty\"")),
      AstField(<<"CreatedAt">>, SelectorExpr(Ident("time"), "Time"), TRUE,
               Tagged("json:\"created_at\"")),
      AstField(<<"DeletedAt">>, StarExpr(SelectorExpr(Ident("time"), "Time")), FALSE, ""),
      AstField(<<>>, Ident("Base"), FALSE, ""),
      AstField(<<>>, StarExpr(Ident("Audit")), TRUE, Tagged("json:\"audit\"")),
      AstField(<<"A", "B">>, Ident("string"), FALSE, ""),
      AstField(<<"Meta">>, InterfaceType, TRUE, Tagged("json:\"meta\" dto:\"read\"")),
      AstField(<<"Opts">>, MapType, FALSE, ""),
      AstField(<<"Tags">>, ArrayType(Ident("string")), TRUE, Tagged("json:\"tags\"")) }

StructPool == {StructType(l) : l \in SeqsUpTo(AstFieldPool, MaxFields)}

UserFields ==
    << AstField(<<"ID">>, Ident("int64"), TRUE, Tagged("json:\"id\"")),
       AstField(<<"Name">>, Ident("string"), TRUE, Tagged("json:\"name\"")) >>

DeclPool ==
    { GenDecl(<<TypeSpec("UserDTO", StructType(UserFields))>>),
      GenDecl(<<TypeSpec("User", StructType(UserFields))>>),
      GenDecl(<<TypeSpec("StatusDTO", Ident("string"))>>),
      GenDecl(<<TypeSpec("CreateUserDTO", StructType(<<UserFields[2]>>)),
                TypeSpec("DTOMapper", StructType(<<>>))>>),
      GenDecl(<<ValueSpec("DefaultDTO")>>),
      FuncDecl("NewUserDTO") }

SourcePool ==
    {SourceFile(d, e) : d \in SeqsUpTo(DeclPool, MaxDecls), e \in BOOLEAN}
        \cup {UnreadableFile}

StructField(name, type, jsonTag, isPointer) ==
    [Name |-> name, Type |-> type, JSONTag |-> jsonTag, DBTag |-> "", DTOTag |-> "",
     IsPointer |-> isPointer]

StructFieldPool ==
    { StructField("ID", "int64", "id", FALSE),
      StructField("Id", "int", "", FALSE),
      StructField("Name", "string", "name", FALSE),
      StructField("Name", "string", "", TRUE),
      StructField("Bio", "string", "bio", TRUE),
      StructField("Username", "string", "", FALSE),
      StructField("CreatedAt", "time.Time", "created_at", FALSE),
      StructField("CreatedAt", "time.Time", "createdAt", FALSE),
      StructField("UpdatedAt", "time.Time", "updatedAt", TRUE),
      StructField("UpdatedAt", "time.Time", "updated_at", FALSE),
      StructField("Price", "float64", "price", FALSE),
      StructField("Meta", "interface{}", "meta", FALSE),
      StructField("Owner", "User", "owner", TRUE) }

FieldListPool == SeqsUpTo(StructFieldPool, MaxFieldList)

MappedTypeNames ==
    {"int", "int16", "int32", "int64", "float32", "float64", "string", "bool",
     "time.Time", "interface{}"}

GoTypePool ==
    MappedTypeNames
        \cup {"*" \o t : t \in MappedTypeNames}
        \cup {"", "*", "**int", "**string", "Int", "uint", "int8", "[]string", "User",
              "*User", " int", "int ", "time.time", "interface {}", "map[string]int"}

(* struct tags: a tag string is written from its key/value pairs, each value
   in double quotes or, malformed, bare; the whole in back quotes or not *)
MaxPairs == 2

TagPair(key, value, quoted) == [key |-> key, value |-> value, quoted |-> quoted]

TagPairPool ==
    { TagPair("json", "user_id", TRUE),
      TagPair("json", "-", TRUE),
      TagPair("json", "email,omitempty", TRUE),
      TagPair("json", "", TRUE),
      TagPair("json", "full name", TRUE),
      TagPair("json", "name", FALSE),
      TagPair("db", "user_id", TRUE),
      TagPair("dto", "create,update", TRUE),
      TagPair("xjson", "x", TRUE) }

TagKeyPool == {"json", "db", "dto", "xml"}

RenderPair(pr) ==
    IF pr.quoted THEN pr.key \o ":" \o DQ \o pr.value \o DQ ELSE pr.key \o ":" \o pr.value

RECURSIVE RenderPairs(_)
RenderPairs(pairs) ==
    IF pairs = <<>> THEN ""
    ELSE IF Len(pairs) = 1 THEN RenderPair(pairs[1])
    ELSE RenderPair(pairs[1]) \o " " \o RenderPairs(Tail(pairs))

RenderTag(pairs, wrapped) ==
    IF wrapped THEN BQ \o RenderPairs(pairs) \o BQ ELSE RenderPairs(pairs)

WordPool ==
    {"cat", "dog", "category", "city", "box", "key", "day", "life", "knife", "leaf",
     "bus", "quiz", "church", "dish", "fizz", "by", "ay", "a", "z", "y", ""}

PathPool ==
    {"", "/", "//", "/health", "/health/live", "/auth", "/auth/login", "/authx",
     "/Auth/login", "/users", "/users/:id", "/users/:id/posts/:postId", "/:id",
     "/files/name.:ext", "/api/v1/status", "users", "/openapi", "/openapi.json"}

MethodPool == {"GET", "POST", "PUT", "PATCH", "DELETE", "HEAD", "OPTIONS", "get", "post"}

(* route tables and claimed resource paths of the route discovery *)
MaxRouteList == 2

TablePathPool ==
    {"", "/", "/openapi", "/openapi.json", "/health", "/auth/login", "/users",
     "/users/:id"}

TableMethodPool == {"GET", "POST", "get"}

TableRoutePool == {Route(p, m) : p \in TablePathPool, m \in TableMethodPool}

RouteTablePool == SeqsUpTo(TableRoutePool, MaxRouteList)

ResourcePathsPool == {{}, {"/users", "/users/:id"}}

ConfigPool ==
    [dtos_directory : {CfgAbsent, CfgValue("string", "./dtos"), CfgValue("string", ""),
                       CfgValue("int", "5")},
     pagination_limit : {CfgAbsent, CfgValue("int", "20"), CfgValue("string", "not_an_int")},
     pagination_max_limit : {CfgAbsent, CfgValue("int", "100")},
     plugin_registry : {CfgAbsent, CfgValue("*plugin.PluginRegistry", "registry")},
     title : {CfgAbsent, CfgValue("string", "Test API"), CfgValue("int", "123")},
     version : {CfgAbsent, CfgValue("string", "2.0.0")},
     description : {CfgAbsent, CfgValue("string", "Custom Description")}]

(* resources as the unit tests of getMainDTO build them *)
DTONamePool ==
    {"UserDTO", "ProfileDTO", "CreateUserDTO", "UpdateUserDTO", "UserCreateDTO",
     "createDTO"}

ResourcePool ==
    {[Name |-> "user", PluralName |-> "users",
      DTOs |-> [n \in names |->
                  [Name |-> n, Fields |-> <<StructField(n, "string", "", FALSE)>>]]] :
        names \in SUBSET DTONamePool}

FnInputs ==
    {[kind |-> "file", src |-> f] : f \in SourcePool}
        \cup {[kind |-> "struct", st |-> st] : st \in StructPool}
        \cup {[kind |-> "fields", fields |-> l] : l \in FieldListPool}
        \cup {[kind |-> "goType", goType |-> t] : t \in GoTypePool}
        \cup {[kind |-> "tag", pairs |-> ps, wrapped |-> w, key |-> k,
               tagString |-> RenderTag(ps, w)] :
                  ps \in SeqsUpTo(TagPairPool, MaxPairs), w \in BOOLEAN, k \in TagKeyPool}
        \cup {[kind |-> "word", word |-> w] : w \in WordPool}
        \cup {[kind |-> "route", path |-> p, method |-> m] : p \in PathPool, m \in MethodPool}
        \cup {[kind |-> "table", rs |-> rs, resourcePaths |-> rp] :
                  rs \in RouteTablePool, rp \in ResourcePathsPool}
        \cup {[kind |-> "config", cfg |-> c] : c \in ConfigPool}
        \cup {[kind |-> "resource", resource |-> r] : r \in ResourcePool}

NoArg == [kind |-> "none"]
NoRet == [kind |-> "none"]

----------------------------------------------------------------------------
(* the functions called on their own, as the unit tests call them *)

EnvIdle ==
    /\ dirState = "missing"
    /\ files = EmptyMap
    /\ routes = <<>>
    /\ cfg = [DTOsDirectory |-> "", PluginRegistry |-> NilRegistry]

InitFn ==
    /\ EnvIdle
    /\ op = "idle"
    /\ arg \in FnInputs
    /\ ret = NoRet

CallExtractDTOsFromFile ==
    /\ op = "idle" /\ arg.kind = "file"
    /\ op' = "extractDTOsFromFile"
    /\ ret' = extractDTOsFromFile(arg.src)
    /\ UNCHANGED <<dirState, files, routes, cfg, arg>>

CallExtractStructFieldsFromAST ==
    /\ op = "idle" /\ arg.kind = "struct"
    /\ op' = "extractStructFieldsFromAST"
    /\ ret' = extractStructFieldsFromAST(arg.st)
    /\ UNCHANGED <<dirState, files, routes, cfg, arg>>

CallBuildSchemaPropertiesFromDTO ==
    /\ op = "idle" /\ arg.kind = "fields"
    /\ op' = "buildSchemaPropertiesFromDTO"
    /\ ret' = buildSchemaPropertiesFromDTO(arg.fields)
    /\ UNCHANGED <<dirState, files, routes, cfg, arg>>

CallGetRequiredFieldsFromDTO ==
    /\ op = "idle" /\ arg.kind = "fields"
    /\ op' = "getRequiredFieldsFromDTO"
    /\ ret' = getRequiredFieldsFromDTO(arg.fields)
    /\ UNCHANGED <<dirState, files, routes, cfg, arg>>

CallGoTypeToOpenAPIType ==
    /\ op = "idle" /\ arg.kind = "goType"
    /\ op' = "goTypeToOpenAPIType"
    /\ ret' = goTypeToOpenAPIType(arg.goType)
    /\ UNCHANGED <<dirState, files, routes, cfg, arg>>

CallExtractTag ==
    /\ op = "idle" /\ arg.kind = "tag"
    /\ op' = "extractTag"
    /\ ret' = [value |-> extractTag(arg.tagString, arg.key)]
    /\ UNCHANGED <<dirState, files, routes, cfg, arg>>

CallPluralize ==
    /\ op = "idle" /\ arg.kind = "word"
    /\ op' = "pluralize"
    /\ ret' = pluralize(arg.word)
    /\ UNCHANGED <<dirState, files, routes, cfg, arg>>

CallDetermineTag ==
    /\ op = "idle" /\ arg.kind = "route"
    /\ op' = "determineTag"
    /\ ret' = [value |-> determineTag(arg.path)]
    /\ UNCHANGED <<dirState, files, routes, cfg, arg>>

CallGenerateRouteSpec ==
    /\ op = "idle" /\ arg.kind = "route"
    /\ op' = "generateRouteSpec"
    /\ ret' = generateRouteSpec(arg.path, arg.method)
    /\ UNCHANGED <<dirState, files, routes, cfg, arg>>

CallGenerateResponses ==
    /\ op = "idle" /\ arg.kind = "route"
    /\ op' = "generateResponses"
    /\ ret' = generateResponses(arg.method)
    /\ UNCHANGED <<dirState, files, routes, cfg, arg>>

CallDiscoverNonResourceRoutes ==
    /\ op = "idle" /\ arg.kind = "table"
    /\ op' = "discoverNonResourceRoutes"
    /\ ret' = discoverNonResourceRoutes(arg.rs, arg.resourcePaths)
    /\ UNCHANGED <<dirState, files, routes, cfg, arg>>

CallInitialize ==
    /\ op = "idle" /\ arg.kind = "config"
    /\ op' = "Initialize"
    /\ ret' = Initialize(arg.cfg)
    /\ UNCHANGED <<dirState, files, routes, cfg, arg>>

CallGetMainDTO ==
    /\ op = "idle" /\ arg.kind = "resource"
    /\ op' = "getMainDTO"
    /\ ret' \in getMainDTO(arg.resource)
    /\ UNCHANGED <<dirState, files, routes, cfg, arg>>

NextFn ==
    \/ CallExtractDTOsFromFile
    \/ CallExtractStructFieldsFromAST
    \/ CallBuildSchemaPropertiesFromDTO
    \/ CallGetRequiredFieldsFromDTO
    \/ CallGoTypeToOpenAPIType
    \/ CallExtractTag
    \/ CallPluralize
    \/ CallDetermineTag
    \/ CallGenerateRouteSpec
    \/ CallGenerateResponses
    \/ CallDiscoverNonResourceRoutes
    \/ CallInitialize
    \/ CallGetMainDTO

SpecFn == InitFn /\ [][NextFn]_vars

----------------------------------------------------------------------------
(* the plugin in its environment: the DTO directory, the route table and the
   requests.  A call is taken in one step and its result is held in ret until
   the caller has it (Return). *)

MaxFiles == 2
MaxRoutes == 1

DTOsDir == "./dtos"

Init ==
    /\ dirState = "missing"
    /\ files = EmptyMap
    /\ routes = <<>>
    /\ cfg \in [DTOsDirectory : {"", DTOsDir}, PluginRegistry : {NilRegistry}]
    /\ op = "idle"
    /\ arg = NoArg
    /\ ret = NoRet

(* dirState is the state of the path cfg.DTOsDirectory names; no directory has
   the empty path *)
CreateDir ==
    /\ op = "idle" /\ dirState # "ok"
    /\ cfg.DTOsDirectory # ""
    /\ dirState' = "ok"
    /\ files' = EmptyMap
    /\ UNCHANGED <<routes, cfg, op, arg, ret>>

RemoveDir ==
    /\ op = "idle" /\ dirState # "missing"
    /\ dirState' = "missing"
    /\ files' = EmptyMap
    /\ UNCHANGED <<routes, cfg, op, arg, ret>>

(* the path stops being a directory that can be listed *)
MakeDirUnreadable ==
    /\ op = "idle" /\ dirState # "unreadable"
    /\ cfg.DTOsDirectory # ""
    /\ dirState' = "unreadable"
    /\ files' = EmptyMap
    /\ UNCHANGED <<routes, cfg, op, arg, ret>>

WriteFile(i, src) ==
    /\ op = "idle" /\ dirState = "ok"
    /\ i \in DOMAIN files \/ Cardinality(DOMAIN files) < MaxFiles
    /\ files' = MapPut(files, i, src)
    /\ UNCHANGED <<dirState, routes, cfg, op, arg, ret>>

RemoveFile(i) ==
    /\ op = "idle" /\ dirState = "ok"
    /\ i \in DOMAIN files
    /\ files' = [j \in (DOMAIN files) \ {i} |-> files[j]]
    /\ UNCHANGED <<dirState, routes, cfg, op, arg, ret>>

AddRoute(r) ==
    /\ op = "idle"
    /\ Len(routes) < MaxRoutes
    /\ r \notin SeqRange(routes)
    /\ routes' = Append(routes, r)
    /\ UNCHANGED <<dirState, files, cfg, op, arg, ret>>

RemoveRoute(i) ==
    /\ op = "idle"
    /\ i \in 1..Len(routes)
    /\ routes' = SubSeq(routes, 1, i - 1) \o SubSeq(routes, i + 1, Len(routes))
    /\ UNCHANGED <<dirState, files, cfg, op, arg, ret>>

CallLoadResourceDTOs ==
    /\ op = "idle"
    /\ op' = "loadResourceDTOs"
    /\ ret' = loadResourceDTOs(dirState, files)
    /\ UNCHANGED <<dirState, files, routes, cfg, arg>>

(* ret keeps what generateOpenAPISpec returned to the handler next to the
   response the handler sent *)
GetOpenAPIJSON ==
    /\ op = "idle"
    /\ op' = "GET /openapi.json"
    /\ \E result \in generateOpenAPISpec(routes, cfg, dirState, files) :
          ret' = [result |-> result, response |-> openapiJSONHandler(result)]
    /\ UNCHANGED <<dirState, files, routes, cfg, arg>>

Return ==
    /\ op # "idle"
    /\ op' = "idle"
    /\ ret' = NoRet
    /\ UNCHANGED <<dirState, files, routes, cfg, arg>>

Next ==
    \/ CreateDir
    \/ RemoveDir
    \/ MakeDirUnreadable
    \/ \E i \in EnvFiles, src \in 1..Len(Sources) : WriteFile(i, src)
    \/ \E i \in EnvFiles : RemoveFile(i)
    \/ \E r \in RoutePool : AddRoute(r)
    \/ \E i \in 1..MaxRoutes : RemoveRoute(i)
    \/ CallLoadResourceDTOs
    \/ GetOpenAPIJSON
    \/ Return

Spec == Init /\ [][Next]_vars

----------------------------------------------------------------------------
(* the plugin configured with a plugin registry: the same environment, with
   the resource files written, rewritten and removed *)

RegistryPool ==
    LET product == [Name |-> "product", PluralName |-> "products",
                    BasePath |-> "/products", Tags |-> <<>>, Description |-> "",
                    ResponseModel |-> "Product", CreateModel |-> "CreateProductRequest",
                    UpdateModel |-> "UpdateProductRequest"]
        report == [Name |-> "report", PluralName |-> "reports",
                   BasePath |-> "/reports", Tags |-> <<"Reporting">>,
                   Description |-> "Monthly reports",
                   ResponseModel |-> "Report", CreateModel |-> "nil", UpdateModel |-> "nil"]
        order == [Name |-> "order", PluralName |-> "orders",
                  BasePath |-> "/orders", Tags |-> <<>>, Description |-> "",
                  ResponseModel |-> "nil", CreateModel |-> "nil", UpdateModel |-> "nil"]
        Provider(resources) == [isProvider |-> TRUE, resources |-> resources]
        OtherPlugin == [isProvider |-> FALSE, resources |-> <<>>]
    IN  { NilRegistry,
          [isNil |-> FALSE, plugins |-> <<>>],
          [isNil |-> FALSE, plugins |-> <<OtherPlugin, Provider(<<>>)>>],
          [isNil |-> FALSE, plugins |-> <<Provider(<<product>>)>>],
          [isNil |-> FALSE, plugins |-> <<Provider(<<product>>), OtherPlugin,
                                          Provider(<<report>>)>>],
          [isNil |-> FALSE, plugins |-> <<Provider(<<order>>)>>] }

InitPlugin ==
    /\ dirState = "missing"
    /\ files = EmptyMap
    /\ routes = <<>>
    /\ cfg \in [DTOsDirectory : {"", DTOsDir}, PluginRegistry : RegistryPool]
    /\ op = "idle"
    /\ arg = NoArg
    /\ ret = NoRet

NextPlugin ==
    \/ CreateDir
    \/ RemoveDir
    \/ MakeDirUnreadable
    \/ \E i \in ResourceFiles, src \in 1..Len(Sources) :
          /\ Sources[src] \in {UserSource, WriteOnlySource}
          /\ WriteFile(i, src)
    \/ \E i \in ResourceFiles : RemoveFile(i)
    \/ \E r \in RoutePool : AddRoute(r)
    \/ \E i \in 1..MaxRoutes : RemoveRoute(i)
    \/ CallLoadResourceDTOs
    \/ GetOpenAPIJSON
    \/ Return

SpecPlugin == InitPlugin /\ [][NextPlugin]_vars

----------------------------------------------------------------------------
(* the scanner's claims *)

TopLevelTypeSpecs(src) ==
    UNION { {sp \in SeqRange(d.Specs) : sp.k = "TypeSpec"} :
            d \in {x \in SeqRange(src.decls) : x.k = "GenDecl"} }

DTOStructSpecs(src) ==
    {ts \in TopLevelTypeSpecs(src) : HasSuffix(ts.Name, "DTO") /\ ts.Type.k = "StructType"}

(* C6: extractDTOsFromFile on a syntactically invalid file returns an error and
   a nil DTO map, never a partial one, also when well-formed DTO declarations
   precede the syntax error. *)
C6_InvalidFileNoPartialMap ==
    (op = "extractDTOsFromFile" /\ arg.src.syntaxError)
        => (ret.err /\ ret.isNil /\ DOMAIN ret.dtos = {})

C6_Witness ==
    /\ op = "extractDTOsFromFile"
    /\ arg.src.syntaxError
    /\ DTOStructSpecs(arg.src) # {}
    /\ ret.err

(* C7: for a file that parses, the keys of the returned map are exactly the
   names of the top-level type declarations that end in DTO and are structs,
   and each key maps to the DTOSchema of that name. *)
C7_KeysAreDTOStructs ==
    (op = "extractDTOsFromFile" /\ arg.src.readable /\ ~arg.src.syntaxError)
        => /\ ~ret.err /\ ~ret.isNil
           /\ DOMAIN ret.dtos = {ts.Name : ts \in DTOStructSpecs(arg.src)}
           /\ \A name \in DOMAIN ret.dtos : ret.dtos[name].Name = name

C7_Witness ==
    /\ op = "extractDTOsFromFile"
    /\ arg.src.readable /\ ~arg.src.syntaxError
    /\ DOMAIN ret.dtos = {"UserDTO"}
    /\ \E ts \in TopLevelTypeSpecs(arg.src) : ts.Name = "StatusDTO"

RECURSIVE DeclaredNames(_)
DeclaredNames(list) ==
    IF list = <<>> THEN <<>> ELSE Head(list).Names \o DeclaredNames(Tail(list))

(* C8: the extracted field list has no StructField for an embedded field and
   exactly one per explicitly named field, in declaration order, one per name
   of a declaration that names several fields. *)
C8_OneFieldPerDeclaredName ==
    (op = "extractStructFieldsFromAST")
        => [i \in 1..Len(ret) |-> ret[i].Name] = DeclaredNames(arg.st.Fields)

----------------------------------------------------------------------------
(* the schema property builder's claims *)

ResolvedJSONName(f) == IF f.JSONTag = "" THEN ToLower(f.Name) ELSE f.JSONTag

NamesOf(q) == [i \in 1..Len(q) |-> ResolvedJSONName(q[i])]

SystemFieldNames == {"id", "created_at", "createdAt", "updated_at", "updatedAt"}

IsRequiredField(f) == ~f.IsPointer /\ ResolvedJSONName(f) \notin SystemFieldNames

(* C9: getRequiredFieldsFromDTO returns, in declaration order, the resolved JSON
   names of the fields that are not pointers and are none of id, created_at,
   createdAt, updated_at, updatedAt; a nil list when no field qualifies. *)
C9_RequiredExcludesSystemFields ==
    (op = "getRequiredFieldsFromDTO")
        => /\ ret.items = NamesOf(SelectSeq(arg.fields, IsRequiredField))
           /\ (ret.items = <<>> => ret.isNil)

DistinctNames(q) == \A i, j \in 1..Len(q) : NamesOf(q)[i] = NamesOf(q)[j] => i = j

(* C10: for a field list with pairwise distinct resolved JSON names,
   buildSchemaPropertiesFromDTO returns one entry per field under its resolved
   name, with the type mapper's type and format (no format key when the format
   is empty) and nullable = IsPointer; an empty list gives an empty non-nil map. *)
C10_OnePropertyPerField ==
    (op = "buildSchemaPropertiesFromDTO")
        => /\ ~ret.isNil
           /\ (arg.fields = <<>> => DOMAIN ret.entries = {})
           /\ DistinctNames(arg.fields) =>
                /\ DOMAIN ret.entries = SeqRange(NamesOf(arg.fields))
                /\ Cardinality(DOMAIN ret.entries) = Len(arg.fields)
                /\ \A i \in 1..Len(arg.fields) :
                     LET f == arg.fields[i]
                         e == ret.entries[ResolvedJSONName(f)]
                         m == goTypeToOpenAPIType(f.Type)
                     IN  /\ e.type = m.typ
                         /\ e.nullable = f.IsPointer
                         /\ IF m.format = ""
                            THEN DOMAIN e = {"type", "nullable"}
                            ELSE DOMAIN e = {"type", "format", "nullable"}
                                 /\ e.format = m.format

C10_Witness ==
    /\ op = "buildSchemaPropertiesFromDTO"
    /\ Len(arg.fields) = MaxFieldList
    /\ DistinctNames(arg.fields)
    /\ \E i, j \in 1..Len(arg.fields) :
          /\ arg.fields[i].IsPointer /\ ~arg.fields[j].IsPointer
          /\ arg.fields[i].JSONTag = "" /\ arg.fields[j].JSONTag # ""
          /\ "format" \in DOMAIN ret.entries[ResolvedJSONName(arg.fields[j])]
          /\ "format" \notin DOMAIN ret.entries[ResolvedJSONName(arg.fields[i])]


----------------------------------------------------------------------------
(* the claims on the loader, the assembler and the JSON endpoint *)

StemOf(i) == TrimSuffix(FileNamePool[i], ".go")

GoFiles(fs) == {i \in DOMAIN fs : HasSuffix(FileNamePool[i], ".go")}

FailingFiles(fs) == {i \in GoFiles(fs) : ParseFile(Sources[fs[i]]).err}

WithoutFailing(fs) == [i \in (DOMAIN fs) \ FailingFiles(fs) |-> fs[i]]

OnlyUserGo ==
    /\ cfg.DTOsDirectory # ""
    /\ dirState = "ok"
    /\ \E i \in DOMAIN files :
          /\ DOMAIN files = {i}
          /\ FileNamePool[i] = "user.go"
          /\ Sources[files[i]] = UserSource

(* C1: for a DTO directory holding exactly user.go, which declares UserDTO
   with ID int64 (json id) and Name string (json name), the generated
   document has components.schemas.User.properties exactly
   {id: integer/int64/not nullable, name: string/not nullable},
   components.schemas.User.required exactly [name], and the paths /users and
   /users/{id}. *)
C1_UserDirectoryDocument ==
    (op = "GET /openapi.json" /\ OnlyUserGo)
        => /\ ret.result.kind = "ok"
           /\ "User" \in DOMAIN ret.result.doc.components.schemas
           /\ ret.result.doc.components.schemas["User"].properties =
                 [id   |-> [type |-> "integer", format |-> "int64", nullable |-> FALSE],
                  name |-> [type |-> "string", nullable |-> FALSE]]
           /\ ret.result.doc.components.schemas["User"].required = <<"name">>
           /\ {"/users", "/users/{id}"} \subseteq DOMAIN ret.result.doc.paths

C1_Witness ==
    /\ op = "GET /openapi.json"
    /\ OnlyUserGo
    /\ routes # <<>>
    /\ DOMAIN ret.result.doc.components.schemas = {"User"}

DirectoryLevelError ==
    cfg.DTOsDirectory # "" /\ dirState \in {"missing", "unreadable"}

(* C2: generateOpenAPISpec returns an error only when a DTO directory is
   configured and is missing or cannot be listed, and then returns no
   document; with DTOsDirectory empty, or naming an existing directory with
   no files, it returns a document without error whose paths are exactly the
   path items route discovery produces. *)
C2_ErrorOnlyOnDirectory ==
    op = "GET /openapi.json"
        => /\ ret.result.kind = "error" => (DirectoryLevelError /\ ret.result.docNil)
           /\ (cfg.DTOsDirectory = "" \/ (dirState = "ok" /\ DOMAIN files = {}))
                 => /\ ret.result.kind = "ok"
                    /\ ~ret.result.docNil
                    /\ ret.result.doc.paths = discoverNonResourceRoutes(routes, {})
                    /\ \A r \in SeqRange(routes) : r.Path \in DOMAIN ret.result.doc.paths

C2_Witness ==
    /\ op = "GET /openapi.json"
    /\ cfg.DTOsDirectory # "" /\ dirState = "ok" /\ DOMAIN files = {}
    /\ ret.result.kind = "ok"
    /\ DOMAIN ret.result.doc.paths = {"/users/{id}"}

(* C3: GET /openapi.json answers 500 with an error field when the DTO
   directory is missing or unreadable; for every other content of the DTO
   directory and every route table it answers with the generated document
   and never aborts the request. *)
C3_AnswersOrFailsLoudly ==
    op = "GET /openapi.json"
        => IF DirectoryLevelError
           THEN /\ ~ret.response.aborted
                /\ ret.response.status = 500
                /\ ret.response.error # ""
           ELSE /\ ~ret.response.aborted
                /\ ret.response.status = 200
                /\ ret.result.kind = "ok"
                /\ ret.response.body = ret.result.doc

(* C4: when some .go files of the directory fail to parse, loadResourceDTOs
   returns no error, its result has no entry for a failing file, and the
   result is what it would be without the failing files in the directory. *)
C4_FailingFilesAreSkipped ==
    (op = "loadResourceDTOs" /\ dirState = "ok" /\ FailingFiles(files) # {})
        => /\ ret.kind # "error"
           /\ \A i \in FailingFiles(files) : StemOf(i) \notin DOMAIN ret.resources
           /\ ret = loadResourceDTOs("ok", WithoutFailing(files))

C4_Witness ==
    /\ op = "loadResourceDTOs" /\ dirState = "ok"
    /\ FailingFiles(files) # {}
    /\ ret.kind = "ok"
    /\ DOMAIN ret.resources # {}

DTOTypeFiles(fs) ==
    {i \in GoFiles(fs) \ FailingFiles(fs) :
        \E ts \in TopLevelTypeSpecs(Sources[fs[i]]) : HasSuffix(ts.Name, "DTO")}

(* C5: loading a directory in which M of the .go files contain at least one
   type whose name ends in DTO yields exactly M resources, one per such file,
   keyed by the file name without its extension; other files are excluded
   and no resource with zero DTOs is in the result. *)
C5_OneResourcePerDTOFile ==
    (op = "loadResourceDTOs" /\ dirState = "ok")
        => /\ ret.kind = "ok"
           /\ DOMAIN ret.resources = {StemOf(i) : i \in DTOTypeFiles(files)}
           /\ Cardinality(DOMAIN ret.resources) = Cardinality(DTOTypeFiles(files))
           /\ \A n \in DOMAIN ret.resources : DOMAIN ret.resources[n].DTOs # {}

----------------------------------------------------------------------------
(* the claims on the type mapper, the tag parser and the pluralizer *)

TypeMapperTable ==
    [int |-> <<"integer", "int32">>, int16 |-> <<"integer", "int32">>,
     int32 |-> <<"integer", "int32">>, int64 |-> <<"integer", "int64">>,
     float32 |-> <<"number", "float">>, float64 |-> <<"number", "double">>,
     string |-> <<"string", "">>, bool |-> <<"boolean", "">>]
        @@ ("time.Time" :> <<"string", "date-time">>)
        @@ ("interface{}" :> <<"object", "">>)

(* C11: goTypeToOpenAPIType returns the pair of the table for each name of
   the table, the same pair when the name carries one leading star, and
   (string, "") for every other string, the empty one included. *)
C11_TypeMapperTotal ==
    op = "goTypeToOpenAPIType"
        => LET name == arg.goType
               pair == <<ret.typ, ret.format>>
           IN  /\ name \in DOMAIN TypeMapperTable => pair = TypeMapperTable[name]
               /\ \A t \in DOMAIN TypeMapperTable :
                     name = "*" \o t => pair = TypeMapperTable[t]
               /\ (/\ name \notin DOMAIN TypeMapperTable
                   /\ \A t \in DOMAIN TypeMapperTable : name # "*" \o t)
                     => pair = <<"string", "">>

C11_Witness ==
    /\ op = "goTypeToOpenAPIType"
    /\ arg.goType = "**int"
    /\ ret.typ = "string"

PairsOfKey(pairs, key) == {i \in 1..Len(pairs) : pairs[i].key = key}

AllQuoted(pairs) == \A i \in 1..Len(pairs) : pairs[i].quoted

(* C12: for a tag string of space-separated key:"value" pairs, with or
   without back quotes around it, in which key K is present, extractTag
   returns the quoted value of K verbatim, the - sentinel and
   comma-separated options included. *)
C12_QuotedValueVerbatim ==
    (op = "extractTag" /\ AllQuoted(arg.pairs) /\ PairsOfKey(arg.pairs, arg.key) # {})
        => ret.value = arg.pairs[Min(PairsOfKey(arg.pairs, arg.key))].value

(* C13: extractTag never fails and returns the empty string whenever the key
   is absent from the tag string, the tag string is empty, or the input is
   malformed, for example when the value of the key's pair is not wrapped in
   double quotes. *)
C13_MissingOrMalformedIsEmpty ==
    (/\ op = "extractTag"
     /\ \/ PairsOfKey(arg.pairs, arg.key) = {}
        \/ arg.pairs = <<>>
        \/ ~arg.pairs[Min(PairsOfKey(arg.pairs, arg.key))].quoted)
        => ret.value = ""

EndsInConsonantY(word) ==
    /\ Len(word) >= 2
    /\ HasSuffix(word, "y")
    /\ SubSeq(word, Len(word) - 1, Len(word) - 1) \notin {"a", "e", "i", "o", "u"}

DropLast(word, n) == SubSeq(word, 1, Len(word) - n)

(* the plurals the priority list allows; the list does not spell the z rule
   out, so both readings of it are allowed here *)
RulePlurals(word) ==
    IF EndsInConsonantY(word) THEN {DropLast(word, 1) \o "ies"}
    ELSE IF HasSuffix(word, "fe") THEN {DropLast(word, 2) \o "ves"}
    ELSE IF HasSuffix(word, "f") THEN {DropLast(word, 1) \o "ves"}
    ELSE IF HasSuffix(word, "z") THEN {word \o "es", word \o "zes"}
    ELSE IF \E e \in {"s", "x", "ch", "sh"} : HasSuffix(word, e) THEN {word \o "es"}
    ELSE {word \o "s"}

(* C14: pluralize applies to its input word the first matching rule of the
   list consonant+y -> ies, fe -> ves, f -> ves, z -> the z rule,
   s/x/ch/sh -> +es, anything else (a vowel followed by y included) -> +s. *)
C14_FirstMatchingRule ==
    op = "pluralize" => (~ret.panic /\ ret.value \in RulePlurals(arg.word))

(* C15: for a word ending in z, pluralize returns the word with its final z
   replaced by zes; pluralize("quiz") is "quizes". *)
C15_ZBecomesZes ==
    (op = "pluralize" /\ HasSuffix(arg.word, "z"))
        => /\ ~ret.panic
           /\ ret.value = DropLast(arg.word, 1) \o "zes"
           /\ arg.word = "quiz" => ret.value = "quizes"

----------------------------------------------------------------------------
(* the claims on the route discovery *)

TablePaths(rs) == {rs[i].Path : i \in 1..Len(rs)}

ReservedPaths == {"/openapi", "/openapi.json", "", "/"}

(* C16: the result of discoverNonResourceRoutes has a key for path p exactly
   when the route table has a route with path p and p is none of /openapi,
   /openapi.json, the empty path, the root path and the claimed resource
   paths; a claimed /users never appears, /health and /auth/login do. *)
C16_DiscoveredKeys ==
    op = "discoverNonResourceRoutes"
        => /\ DOMAIN ret = (TablePaths(arg.rs) \ ReservedPaths) \ arg.resourcePaths
           /\ "/users" \in arg.resourcePaths => "/users" \notin DOMAIN ret
           /\ \A p \in {"/health", "/auth/login"} :
                 p \in TablePaths(arg.rs) => p \in DOMAIN ret

C16_Witness ==
    /\ op = "discoverNonResourceRoutes"
    /\ TablePaths(arg.rs) = {"/users", "/health"}
    /\ "/users" \in arg.resourcePaths
    /\ DOMAIN ret = {"/health"}

(* the first segment of a path: what stands between the leading slashes and
   the next slash *)
FirstSegment(path) ==
    LET s == TrimLeft(path, "/")
        slashes == {i \in 1..Len(s) : SubSeq(s, i, i) = "/"}
    IN  IF slashes = {} THEN s ELSE SubSeq(s, 1, Min(slashes) - 1)

(* C17: determineTag returns General when the path is empty or has no first
   segment, Authentication when the first segment is exactly auth, System
   when it is exactly health, and otherwise the first segment with its first
   letter upper-cased and the rest unchanged, whatever segments follow. *)
C17_TagOfFirstSegment ==
    op = "determineTag"
        => LET seg == FirstSegment(arg.path) IN
           ret.value = CASE seg = "" -> "General"
                         [] seg = "auth" -> "Authentication"
                         [] seg = "health" -> "System"
                         [] OTHER -> ToUpperChar(SubSeq(seg, 1, 1)) \o SubSeq(seg, 2, Len(seg))

C17_Witness ==
    /\ op = "determineTag"
    /\ arg.path = "/authx"
    /\ ret.value = "Authx"

IsParamSegment(seg) == Len(seg) >= 2 /\ SubSeq(seg, 1, 1) = ":"

ParamSegments(path) == SelectSeq(Split(path, "/"), IsParamSegment)

(* C18: the operation generated for a route has a parameters entry exactly
   when its path has at least one segment of the form :name; the entry then
   lists one parameter per such segment, in path order, with name = the
   segment without its colon, in = path, required = true and schema type
   string. *)
C18_ParametersPerParamSegment ==
    op = "generateRouteSpec"
        => LET segs == ParamSegments(arg.path) IN
           /\ "parameters" \in DOMAIN ret <=> segs # <<>>
           /\ "parameters" \in DOMAIN ret
                 => /\ Len(ret.parameters) = Len(segs)
                    /\ \A i \in 1..Len(segs) :
                          /\ ret.parameters[i].name = SubSeq(segs[i], 2, Len(segs[i]))
                          /\ ret.parameters[i].in = "path"
                          /\ ret.parameters[i].required = TRUE
                          /\ ret.parameters[i].schema = [type |-> "string"]

(* C19: the operation generated for a route has a requestBody exactly when
   the method is POST, PUT or PATCH; the body is then required and its
   application/json schema is the open object {type: object}. *)
C19_RequestBodyForWritingMethods ==
    /\ op = "generateRouteSpec"
        => /\ "requestBody" \in DOMAIN ret <=> arg.method \in {"POST", "PUT", "PATCH"}
           /\ "requestBody" \in DOMAIN ret
                 => /\ ret.requestBody.required = TRUE
                    /\ ret.requestBody.content.content = "application/json"
                    /\ ret.requestBody.content.schema = [type |-> "object"]
    /\ op = "discoverNonResourceRoutes"
        => \A p \in DOMAIN ret : \A m \in DOMAIN ret[p] :
              "requestBody" \in DOMAIN ret[p][m] <=> m \in {"post", "put", "patch"}

C19_Witness ==
    /\ op = "generateRouteSpec"
    /\ arg.method = "PATCH" /\ arg.path = "/users/:id"
    /\ "requestBody" \in DOMAIN ret

StatusCodesOf(method) ==
    CASE method = "GET" -> {"200"}
      [] method = "POST" -> {"201", "400"}
      [] method \in {"PUT", "PATCH"} -> {"200", "404"}
      [] method = "DELETE" -> {"204", "404"}
      [] OTHER -> {"200"}

CarriesContent(method, code) ==
    \/ method \in {"GET", "PUT", "PATCH"} /\ code = "200"
    \/ method = "POST" /\ code = "201"

(* C20: generateResponses returns the status codes GET -> {200},
   POST -> {201, 400}, PUT and PATCH -> {200, 404}, DELETE -> {204, 404},
   any other method -> {200}; the 200 of GET/PUT/PATCH and the 201 of POST
   carry an application/json content with schema {type: object}, every other
   entry a description only. *)
C20_ResponsesPerMethod ==
    op = "generateResponses"
        => /\ DOMAIN ret = StatusCodesOf(arg.method)
           /\ \A code \in DOMAIN ret :
                 IF CarriesContent(arg.method, code)
                 THEN /\ DOMAIN ret[code] = {"description", "content"}
                      /\ ret[code].content.content = "application/json"
                      /\ ret[code].content.schema = [type |-> "object"]
                 ELSE DOMAIN ret[code] = {"description"}

C20_Witness ==
    /\ op = "generateResponses"
    /\ arg.method = "HEAD"
    /\ DOMAIN ret = {"200"}
    /\ DOMAIN ret["200"] = {"description"}

MethodKeysOf(rs, path) == {ToLower(rs[i].Method) : i \in {j \in 1..Len(rs) : rs[j].Path = path}}

Reverse(q) == [i \in 1..Len(q) |-> q[Len(q) + 1 - i]]

(* C21: every non-skipped path gets one path item with exactly one operation
   per distinct method registered on the path, keyed by the lower-cased
   method; a further route of the same path adds its operation and leaves the
   operations recorded before unchanged, and the order of the routes in the
   table does not matter. *)
C21_MethodsMergePerPath ==
    op = "discoverNonResourceRoutes"
        => /\ \A p \in DOMAIN ret :
                 /\ DOMAIN ret[p] = MethodKeysOf(arg.rs, p)
                 /\ \A m \in DOMAIN ret[p] : ret[p][m] = generateRouteSpec(p, ToUpper(m))
           /\ arg.rs # <<>>
                 => LET before == discoverNonResourceRoutes(
                                      SubSeq(arg.rs, 1, Len(arg.rs) - 1), arg.resourcePaths)
                    IN  \A p \in DOMAIN before :
                           /\ p \in DOMAIN ret
                           /\ \A m \in DOMAIN before[p] :
                                 m \in DOMAIN ret[p] /\ ret[p][m] = before[p][m]
           /\ ret = discoverNonResourceRoutes(Reverse(arg.rs), arg.resourcePaths)

C21_Witness ==
    /\ op = "discoverNonResourceRoutes"
    /\ Len(arg.rs) = 2
    /\ arg.rs[1].Path = "/health" /\ arg.rs[2].Path = "/health"
    /\ DOMAIN ret["/health"] = {"get", "post"}

----------------------------------------------------------------------------
(* the claims on the assembled document *)

DTONamesOfFile(fs, i) == {ts.Name : ts \in DTOStructSpecs(Sources[fs[i]])}

IsWriteDTOName(name) == Contains(name, "Create") \/ Contains(name, "Update")

(* the files whose resource is retained and has no main DTO *)
NoMainDTOFiles(fs) ==
    {i \in GoFiles(fs) \ FailingFiles(fs) :
        /\ DTONamesOfFile(fs, i) # {}
        /\ \A n \in DTONamesOfFile(fs, i) : IsWriteDTOName(n)}

Capitalized(name) == ToUpper(SubSeq(name, 1, 1)) \o SubSeq(name, 2, Len(name))

(* C22: a resource none of whose DTOs qualifies as main DTO contributes no
   schema/path pair: the document has no components.schemas entry for it and
   no path items at /<plural> and /<plural>/{id} (a path of that name can
   only come from a route of the route table). *)
C22_NoMainDTONoSchemaNoPaths ==
    (op = "GET /openapi.json" /\ cfg.DTOsDirectory # "" /\ dirState = "ok"
        /\ ret.result.kind = "ok")
        => \A i \in NoMainDTOFiles(files) :
              LET base == "/" \o pluralize(StemOf(i)).value IN
              /\ Capitalized(StemOf(i)) \notin DOMAIN ret.result.doc.components.schemas
              /\ \A p \in {base, base \o "/{id}"} :
                    p \in DOMAIN ret.result.doc.paths => p \in TablePaths(routes)

----------------------------------------------------------------------------
(* the claim on the plugin's configuration *)

(* C23: Initialize returns an error when the configuration has no
   dtos_directory entry, and returns nil and stores the directory when the
   entry is a string. *)
C23_DTOsDirectoryRequired ==
    op = "Initialize"
        => /\ arg.cfg.dtos_directory = CfgAbsent => ret.err
           /\ arg.cfg.dtos_directory.t = "string"
                 => (~ret.err /\ ret.p.dtosDirectory = arg.cfg.dtos_directory.v)

----------------------------------------------------------------------------
(* the claims on requests over time *)

RetainedFiles(fs) == {i \in GoFiles(fs) \ FailingFiles(fs) : DTONamesOfFile(fs, i) # {}}

BasePathsNow == {"/" \o pluralize(StemOf(i)).value : i \in RetainedFiles(files)}

SchemaNamesNow ==
    {Capitalized(StemOf(i)) :
        i \in {j \in RetainedFiles(files) : \E n \in DTONamesOfFile(files, j) : ~IsWriteDTOName(n)}}

RoutePathsNow ==
    (TablePaths(routes) \ ReservedPaths) \ (BasePathsNow \cup {b \o "/:id" : b \in BasePathsNow})

(* C24: the response to a documentation request depends only on the
   directory, the route table and the configuration at the time of the
   request, nothing is cached: the request fails exactly when the directory
   is missing or unreadable now, and the schemas and paths of the document
   are those of the files and routes present now. *)
C24_ResponseReflectsCurrentState ==
    op = "GET /openapi.json"
        => /\ ret.result.kind = "error" <=> DirectoryLevelError
           /\ ret.response.status = 500 <=> DirectoryLevelError
           /\ (ret.result.kind = "ok" /\ cfg.DTOsDirectory # "")
                 => /\ ret.response.body = ret.result.doc
                    /\ DOMAIN ret.result.doc.components.schemas = SchemaNamesNow
                    /\ DOMAIN ret.result.doc.paths =
                          BasePathsNow \cup {b \o "/{id}" : b \in BasePathsNow}
                              \cup RoutePathsNow
           /\ (ret.result.kind = "ok" /\ cfg.DTOsDirectory = "")
                 => /\ ret.response.body = ret.result.doc
                    /\ DOMAIN ret.result.doc.components.schemas = {}
                    /\ DOMAIN ret.result.doc.paths = TablePaths(routes) \ ReservedPaths

C24_Witness ==
    /\ op = "GET /openapi.json"
    /\ cfg.DTOsDirectory # "" /\ dirState = "ok"
    /\ ret.result.kind = "ok"
    /\ SchemaNamesNow = {"User"}
    /\ RoutePathsNow = {"/health"}
    /\ DOMAIN ret.result.doc.paths = {"/users", "/users/{id}", "/health"}

(* C25: generation is idempotent: a second call of generateOpenAPISpec with
   the same configuration, directory contents and route table returns the
   document the first call returned, for every directory content, a resource
   file that declares several DTO types included. *)
C25_SecondCallSameDocument ==
    op = "GET /openapi.json"
        => \A second \in generateOpenAPISpec(routes, cfg, dirState, files) :
              second = ret.result

----------------------------------------------------------------------------
(* the claim on the main DTO of a resource *)

QualifyingDTOs(r) == {n \in DOMAIN r.DTOs : ~IsWriteDTOName(n)}

(* C26: getMainDTO returns nil exactly when every DTO name of the resource
   contains Create or Update (or the resource has no DTO); otherwise it
   returns a DTO of the resource whose name contains neither, and when
   exactly one DTO qualifies every call returns that one. *)
C26_MainDTOQualifies ==
    op = "getMainDTO"
        => LET q == QualifyingDTOs(arg.resource) IN
           /\ ret.isNil <=> q = {}
           /\ ~ret.isNil
                 => /\ ret.Name \in q
                    /\ ret.Fields = arg.resource.DTOs[ret.Name].Fields
           /\ Cardinality(q) = 1 => \A again \in getMainDTO(arg.resource) : again = ret

C26_Witness ==
    /\ op = "getMainDTO"
    /\ DOMAIN arg.resource.DTOs = {"UserDTO", "CreateUserDTO", "UserCreateDTO"}
    /\ ret.Name = "UserDTO"

----------------------------------------------------------------------------
(* the claims on the references and on the two resource sources *)

RefsOfResponses(responses) ==
    UNION {{responses[c][f] : f \in DOMAIN responses[c] \cap {"ref", "memberRef"}} :
            c \in DOMAIN responses}

RefsOfOperation(operation) ==
    RefsOfResponses(operation.responses)
        \cup (IF "requestBody" \in DOMAIN operation
                 /\ "ref" \in DOMAIN operation.requestBody
              THEN {operation.requestBody.ref} ELSE {})

RefsOfPaths(paths) ==
    UNION {UNION {RefsOfOperation(paths[p][m]) : m \in DOMAIN paths[p]} : p \in DOMAIN paths}

(* C27: in every document generateOpenAPISpec returns, every $ref of a path
   item (request body, response, collection member) names a schema of
   components.schemas of the same document, in DTO mode and in
   plugin-resource mode. *)
C27_RefsResolve ==
    (op = "GET /openapi.json" /\ ret.result.kind = "ok")
        => \A ref \in RefsOfPaths(ret.result.doc.paths) :
              \E n \in DOMAIN ret.result.doc.components.schemas : ref = SchemaRef(n)

(* C28: pluralize returns a result for every word, the empty word and the
   one-letter words included; no call reads a character position outside the
   word. *)
C28_PluralizeTotal ==
    op = "pluralize" => ~ret.panic

PluginResourceSet ==
    UNION {SeqRange(cfg.PluginRegistry.plugins[i].resources) :
            i \in {j \in DOMAIN cfg.PluginRegistry.plugins :
                      cfg.PluginRegistry.plugins[j].isProvider}}

DTOMode == PluginResourceSet = {} /\ cfg.DTOsDirectory # ""

(* the path items that refer to the schema of a resource *)
ResourcePathItems(doc) ==
    {p \in DOMAIN doc.paths :
        \E m \in DOMAIN doc.paths[p] : RefsOfOperation(doc.paths[p][m]) # {}}

(* C29: in DTO mode the resources never overwrite each other: when each of
   the R retained resources has a main DTO, the document has R schemas and
   2*R resource path items. *)
C29_ResourcesNeverOverwrite ==
    (/\ op = "GET /openapi.json" /\ DTOMode
     /\ ret.result.kind = "ok"
     /\ NoMainDTOFiles(files) = {})
        => LET R == Cardinality(RetainedFiles(files)) IN
           /\ Cardinality(DOMAIN ret.result.doc.components.schemas) = R
           /\ Cardinality(ResourcePathItems(ret.result.doc)) = 2 * R

PluginSchemaNames ==
    UNION {   (IF r.ResponseModel # "nil" THEN {Capitalized(r.Name)} ELSE {})
         \cup (IF r.CreateModel # "nil"
               THEN {"Create" \o Capitalized(r.Name) \o "Request"} ELSE {})
         \cup (IF r.UpdateModel # "nil"
               THEN {"Update" \o Capitalized(r.Name) \o "Request"} ELSE {})
         : r \in PluginResourceSet}

PluginBasePaths == {r.BasePath : r \in PluginResourceSet}

(* C30: plugin resources take precedence over the DTO directory.  When the
   registry supplies a resource, generation succeeds whatever the state of
   the DTO directory (missing included) and the document holds the schemas
   and resource paths of the plugin resources only; the directory is scanned
   when the registry is nil or supplies no resource. *)
C30_PluginResourcesTakePrecedence ==
    op = "GET /openapi.json"
        => /\ PluginResourceSet # {}
                 => /\ ret.result.kind = "ok"
                    /\ DOMAIN ret.result.doc.components.schemas = PluginSchemaNames
                    /\ DOMAIN ret.result.doc.paths =
                          PluginBasePaths \cup {b \o "/{id}" : b \in PluginBasePaths}
                            \cup ((TablePaths(routes) \ ReservedPaths)
                                    \ (PluginBasePaths
                                         \cup {b \o "/:id" : b \in PluginBasePaths}))
           /\ DTOMode
                 => /\ ret.result.kind = "error" <=> dirState # "ok"
                    /\ ret.result.kind = "ok"
                          => DOMAIN ret.result.doc.components.schemas = SchemaNamesNow

C30_Witness ==
    /\ op = "GET /openapi.json"
    /\ PluginResourceSet # {}
    /\ cfg.DTOsDirectory # "" /\ dirState = "missing"
    /\ ret.result.kind = "ok"
    /\ DOMAIN ret.result.doc.components.schemas
          = {"Product", "CreateProductRequest", "UpdateProductRequest", "Report"}
    /\ "/products/{id}" \in DOMAIN ret.result.doc.paths

============================================================================
